---- MODULE Spec2Model ----
(***************************************************************************)
(* PeriodogramAnalysis.__call__ as a state machine.                        *)
(*                                                                         *)
(* Units.  Frequencies are integers counting half-Hertz (0.5 Hz = 1), so   *)
(* that the band (0.5, 4) is <<1, 8>>.  window_length_for_welch counts     *)
(* sixteenths of a second (4 = 0.25 s).  A power is the exact rational     *)
(* [num, den] of its value in units of (half-Hz x density) / 12, which     *)
(* keeps scipy's Simpson weights (1/3, 4/3, 5/12, 2/3, 1/12) integral;     *)
(* den = 0 is the float the division by a zero total produces (nan).       *)
(*                                                                         *)
(* A channel's samples are named by their waveform; scipy.signal.welch is  *)
(* modelled by its frequency axis (exact) and by the spectral density of   *)
(* the waveform sampled on that axis (Density).                            *)
(***************************************************************************)
EXTENDS Integers, Sequences, FiniteSets, TLC

VARIABLES
    signal,                   \* the input: a sequence of chunks
    exclude_channel_list,     \* configuration, line 31
    band_list,                \* configuration, line 32
    window_length_for_welch,  \* configuration, line 33
    chunk_idx,                \* enumerate(signal) index, 0-based
    pc,                       \* position in the body of the loop of __call__
    psd_dict,                 \* chunk index -> channel -> [freqs, psd]
    power_dict,               \* chunk index -> channel -> power record
    log,                      \* the lines given to self.logger.info, in order
    band_calls,               \* history: the band-power helper calls that returned
    error                     \* the exception that left __call__, if any

vars == <<signal, exclude_channel_list, band_list, window_length_for_welch,
          chunk_idx, pc, psd_dict, power_dict, log, band_calls, error>>

\* Bounds of the model.
MaxChunks == 2
MaxChannels == 2
MaxBands == 2

----------------------------------------------------------------------------
\* Arithmetic helpers.

Min(a, b) == IF a <= b THEN a ELSE b

Max(a, b) == IF a >= b THEN a ELSE b

Abs(a) == IF a >= 0 THEN a ELSE -a

\* Python's int() of the rational n/d (d > 0): truncation toward zero.
IntTrunc(n, d) == IF n >= 0 THEN n \div d ELSE -((-n) \div d)

RECURSIVE GCD(_, _)
GCD(a, b) == IF b = 0 THEN a ELSE GCD(b, a % b)

\* f[lo] + .. + f[hi].
RECURSIVE Sum(_, _, _)
Sum(f, lo, hi) ==
    IF lo > hi THEN 0
    ELSE IF lo = hi THEN f[lo]
    ELSE LET mid == (lo + hi) \div 2 IN Sum(f, lo, mid) + Sum(f, mid + 1, hi)

\* A float: the rational num/den in lowest terms; x/0 keeps den = 0.
Float(n, d) ==
    IF d = 0 THEN [num |-> IF n = 0 THEN 0 ELSE (IF n > 0 THEN 1 ELSE -1), den |-> 0]
    ELSE LET g == GCD(Abs(n), Abs(d))
             s == IF d < 0 THEN -1 ELSE 1
         IN [num |-> s * (n \div g), den |-> s * (d \div g)]

NaN == [num |-> 0, den |-> 0]

Zero == [num |-> 0, den |-> 1]

NoError == "none"

----------------------------------------------------------------------------
\* The inputs.

\* Column c of a sample buffer: an even column holds a 10 Hz sine, an odd
\* column is silent (all samples 0).
Waveform(c) == IF c % 2 = 0 THEN "sine10" ELSE "zero"

\* A chunk as __call__ reads it: signal.rate, signal.number_of_channels and
\* signal.data, a buffer of shape (nsamples, cols).
MkChunk(rate, nsamples, number_of_channels, cols) ==
    [rate |-> rate,
     number_of_channels |-> number_of_channels,
     shape |-> <<nsamples, cols>>,
     data |-> [c \in 0..(cols - 1) |-> Waveform(c)]]

ChunkKinds ==
    { MkChunk(256, 64, MaxChannels, MaxChannels),      \* 0.25 s at 256 Hz
      MkChunk(64, 64, MaxChannels, MaxChannels),       \* 1 s at 64 Hz
      MkChunk(32, 64, MaxChannels, MaxChannels),       \* Nyquist 16 Hz, below gamma
      MkChunk(64, 8, 1, 1),                            \* 0.125 s: shorter than 0.25 s
      MkChunk(0, 64, 1, 1),                            \* rate 0
      MkChunk(64, 64, 1, MaxChannels),                 \* declares fewer channels
      MkChunk(64, 64, MaxChannels, MaxChannels - 1) }  \* declares more channels

Signals == UNION { [1..n -> ChunkKinds] : n \in 1..MaxChunks }

ExcludeLists == { {}, {1}, {0, MaxChannels} }

\* The five bands of the default band_list, line 32, in half-Hz.
DefaultBand(i) ==
    CASE i % 5 = 1 -> <<16, 24>>     \* (8, 12)
      [] i % 5 = 2 -> <<60, 200>>    \* (30, 100)
      [] i % 5 = 3 -> <<1, 8>>       \* (0.5, 4)
      [] i % 5 = 4 -> <<8, 16>>      \* (4, 8)
      [] OTHER     -> <<24, 60>>     \* (12, 30)

BandLists ==
    { <<>>,
      [i \in 1..MaxBands |-> DefaultBand(i)],
      << <<300, 400>> >> }           \* (150, 200): above every Nyquist frequency here

\* 0.0625 s and 0.25 s.
WindowLengths == {1, 4}

Malformed(chunk) ==
    \/ chunk.rate <= 0
    \/ chunk.number_of_channels # chunk.shape[2]

----------------------------------------------------------------------------
\* numpy and scipy.

\* Spectral density of a waveform at frequency f (half-Hz) as a Hann-windowed
\* periodogram of nperseg samples resolves it: a 10 Hz line spreads over a
\* main lobe of two bins (of width fs/nperseg) to either side; constant
\* samples leave nothing once the mean is removed.
Density(waveform, f, fs, nperseg) ==
    IF waveform = "sine10"
    THEN Max(0, ((4 * fs) \div nperseg) - Abs(f - 20))
    ELSE 0

\* numpy.fft.rfftfreq(nfft, 1/fs), in half-Hz: bins 0 .. nfft // 2.
RfftFreq(nfft, fs) == [i \in 1..((nfft \div 2) + 1) |-> (2 * (i - 1) * fs) \div nfft]

\* The estimate of a waveform on a frequency axis.
CurveOn(freqs, waveform, fs, nperseg) ==
    [error |-> NoError,
     freqs |-> freqs,
     psd |-> [i \in 1..Len(freqs) |-> Density(waveform, freqs[i], fs, nperseg)]]

NoCurve(kind) == [error |-> kind, freqs |-> <<>>, psd |-> <<>>]

\* scipy.signal.welch(x, fs, nperseg=nperseg, nfft=nfft) once nperseg and nfft
\* are integers: int(nperseg) < 1 raises ValueError; a segment longer than
\* the input is cut to the input (with a warning); nfft = 0 stands for
\* nfft=None, which is nperseg; nfft below nperseg raises ValueError.
WelchSegments(waveform, nsamples, fs, asked, nfft) ==
    IF asked < 1
    THEN NoCurve("ValueError")
    ELSE IF nfft = 0
    THEN CurveOn(RfftFreq(Min(asked, nsamples), fs), waveform, fs, Min(asked, nsamples))
    ELSE IF nfft < Min(asked, nsamples)
    THEN NoCurve("ValueError")
    ELSE CurveOn(RfftFreq(nfft, fs), waveform, fs, Min(asked, nsamples))

\* scipy.signal.welch on a channel of nsamples samples; nperseg16 and nfft16
\* are nperseg and nfft in sixteenths (nfft16 = 0: nfft=None), cut by int().
SigWelch(waveform, nsamples, fs, nperseg16, nfft16) ==
    WelchSegments(waveform, nsamples, fs, IntTrunc(nperseg16, 16), IntTrunc(nfft16, 16))

\* y[idx] for a boolean array idx: the selected entries, in order.
BoolIndex(y, idx) ==
    LET pairs == [i \in 1..Len(y) |-> <<y[i], idx[i]>>]
        Selected(p) == p[2]
        kept == SelectSeq(pairs, Selected)
    IN [k \in 1..Len(kept) |-> kept[k][1]]

\* scipy.integrate._basic_simpson(y, start, stop, None, dx, axis) / dx * 12:
\* the triples (i, i+1, i+2) for i = start, start+2, .. below stop (0-based);
\* a negative stop counts from the end, as a slice does.
BasicSimpson12(y, start, stop) ==
    LET n == Len(y)
        upto == IF stop < 0 THEN Max(0, n + stop) ELSE Min(stop, n)
        triples == IF upto > start THEN (upto - start + 1) \div 2 ELSE 0
    IN 4 * Sum([t \in 1..triples |-> y[start + 2 * t - 1] + 4 * y[start + 2 * t]
                                     + y[start + 2 * t + 1]], 1, triples)

\* scipy.integrate.simpson(y, dx=dx) raises IndexError on an empty y (it
\* reads y[-1]).
SimpsonRaises(y) == Len(y) = 0

\* scipy.integrate.simpson(y, dx=dx) / dx * 12 for a non-empty y: Simpson's
\* rule for an odd number of points (0 for one point), the trapezoid for two,
\* and for an even number Simpson's rule on all but the last interval plus
\* the three-point correction for the last interval.
Simpson12(y) ==
    LET n == Len(y)
    IN  IF n % 2 = 0
        THEN IF n = 2
             THEN 6 * (y[n] + y[n - 1])
             ELSE BasicSimpson12(y, 0, n - 3) + 5 * y[n] + 8 * y[n - 1] - y[n - 2]
        ELSE BasicSimpson12(y, 0, n - 2)

\* multitaper_psd(x, fs) -> (psd, freqs): a non-negative estimate on bins from
\* 0 to fs/2, at the resolution of the whole input, fs / nsamples.
multitaper_psd(waveform, nsamples, fs) ==
    CurveOn(RfftFreq(nsamples, fs), waveform, fs, nsamples)

----------------------------------------------------------------------------
\* The methods of PeriodogramAnalysis.

\* The five bands of computing_absolute_and_relative_power, in half-Hz.
bands == [delta |-> <<1, 8>>, theta |-> <<8, 16>>, alpha |-> <<16, 24>>,
          beta |-> <<24, 60>>, gamma |-> <<60, 200>>]

band_names == <<"delta", "theta", "alpha", "beta", "gamma">>

\* `channel in self.exclude_channel_list` in computing_welch_periodogram.
ExcludedFromWelchNever(channel) == FALSE

ExcludedFromWelch(channel) == channel \in exclude_channel_list

\* `channel in self.exclude_channel_list` in computing_ratio_and_bandpower.
ExcludedFromReport(channel) == channel \in exclude_channel_list

\* One turn of the channel loop of computing_welch_periodogram: the column is
\* read (IndexError past the buffer's last column), centred and estimated
\* with nperseg = win and nfft = 4 * win, win = window_length_for_welch * rate.
WelchOfChannel(chunk, channel) ==
    IF channel >= chunk.shape[2]
    THEN NoCurve("IndexError")
    ELSE SigWelch(chunk.data[channel], chunk.shape[1], chunk.rate,
                  window_length_for_welch * chunk.rate,
                  4 * (window_length_for_welch * chunk.rate))

\* What the channel loop leaves: the exception of the first channel that
\* raises, or the dictionary of the estimates.
WelchDict(estimates, bad) ==
    IF bad # {}
    THEN [error |-> estimates[CHOOSE c \in bad : \A d \in bad : c <= d].error, value |-> <<>>]
    ELSE [error |-> NoError,
          value |-> [c \in DOMAIN estimates |->
                        [freqs |-> estimates[c].freqs, psd |-> estimates[c].psd]]]

WelchEstimates(estimates) ==
    WelchDict(estimates, {c \in DOMAIN estimates : estimates[c].error # NoError})

\* computing_welch_periodogram(signal).
computing_welch_periodogram(chunk) ==
    WelchEstimates([c \in {d \in 0..(chunk.number_of_channels - 1) : ~ExcludedFromWelch(d)}
                       |-> WelchOfChannel(chunk, c)])

\* The mask with its upper edge left out.
BandMaskOpenAbove(freqs, band) ==
    [i \in 1..Len(freqs) |-> freqs[i] >= band[1] /\ freqs[i] < band[2]]

\* The mask with its lower edge left out.
BandMaskOpenBelow(freqs, band) ==
    [i \in 1..Len(freqs) |-> freqs[i] > band[1] /\ freqs[i] <= band[2]]

\* np.logical_and(freqs >= low, freqs <= high), lines 125-129.
BandMask(freqs, band) ==
    [i \in 1..Len(freqs) |-> freqs[i] >= band[1] /\ freqs[i] <= band[2]]

\* np.logical_and(freqs >= low, freqs <= high), line 291.
MultitaperBandMask(freqs, band) ==
    [i \in 1..Len(freqs) |-> freqs[i] >= band[1] /\ freqs[i] <= band[2]]

\* np.logical_and(freqs >= low, freqs <= high), line 328.
WelchBandMask(freqs, band) ==
    [i \in 1..Len(freqs) |-> freqs[i] >= band[1] /\ freqs[i] <= band[2]]

\* freqs[1] - freqs[0], in half-Hz.
FreqRes(freqs) == freqs[2] - freqs[1]

\* simpson(psd[idx], dx=freq_res), in units of (half-Hz x density) / 12.
MaskedPower(curve, idx) == FreqRes(curve.freqs) * Simpson12(BoolIndex(curve.psd, idx))

\* simpson(psd, dx=freq_res).
TotalPower(curve) == FreqRes(curve.freqs) * Simpson12(curve.psd)

\* The record of lines 144-160; absolute / total is the float division of
\* lines 138-142.
PowerRecord(idx, absolute, total) ==
    [idx_delta |-> idx.delta, idx_theta |-> idx.theta, idx_alpha |-> idx.alpha,
     idx_beta |-> idx.beta, idx_gamma |-> idx.gamma,
     delta_power |-> Float(absolute.delta, 1),
     theta_power |-> Float(absolute.theta, 1),
     alpha_power |-> Float(absolute.alpha, 1),
     beta_power |-> Float(absolute.beta, 1),
     gamma_power |-> Float(absolute.gamma, 1),
     delta_rel_power |-> Float(absolute.delta, total),
     theta_rel_power |-> Float(absolute.theta, total),
     alpha_rel_power |-> Float(absolute.alpha, total),
     beta_rel_power |-> Float(absolute.beta, total),
     gamma_rel_power |-> Float(absolute.gamma, total)]

PowerOfMasks(curve, idx) ==
    PowerRecord(idx, [b \in DOMAIN bands |-> MaskedPower(curve, idx[b])], TotalPower(curve))

\* One turn of the channel loop of computing_absolute_and_relative_power:
\* freqs[1] and simpson of an empty selection raise IndexError.
PowerOfChannelRaises(curve) ==
    \/ Len(curve.freqs) < 2
    \/ \E b \in DOMAIN bands :
          SimpsonRaises(BoolIndex(curve.psd, BandMask(curve.freqs, bands[b])))

PowerOfChannel(curve) ==
    PowerOfMasks(curve, [b \in DOMAIN bands |-> BandMask(curve.freqs, bands[b])])

\* computing_absolute_and_relative_power(psd_dict) for one chunk's psd_dict.
computing_absolute_and_relative_power(psd) ==
    IF \E c \in DOMAIN psd : PowerOfChannelRaises(psd[c])
    THEN [error |-> "IndexError", value |-> <<>>]
    ELSE [error |-> NoError, value |-> [c \in DOMAIN psd |-> PowerOfChannel(psd[c])]]

\* The fields of a power record by band name.
IdxOf(rec, b) ==
    CASE b = "delta" -> rec.idx_delta [] b = "theta" -> rec.idx_theta
      [] b = "alpha" -> rec.idx_alpha [] b = "beta" -> rec.idx_beta
      [] OTHER -> rec.idx_gamma

AbsPowerOf(rec, b) ==
    CASE b = "delta" -> rec.delta_power [] b = "theta" -> rec.theta_power
      [] b = "alpha" -> rec.alpha_power [] b = "beta" -> rec.beta_power
      [] OTHER -> rec.gamma_power

RelPowerOf(rec, b) ==
    CASE b = "delta" -> rec.delta_rel_power [] b = "theta" -> rec.theta_rel_power
      [] b = "alpha" -> rec.alpha_rel_power [] b = "beta" -> rec.beta_rel_power
      [] OTHER -> rec.gamma_rel_power

\* What a band-power helper hands back: its exception, or bp with the curve
\* and the mask it integrated.
Raised(kind) == [error |-> kind, bp |-> NaN, freqs |-> <<>>, psd |-> <<>>, idx_band |-> <<>>]

\* Lines 290-296 and 327-333: freq_res, the integral over the mask, and the
\* division by the integral of the whole curve when relative.
BandPowerOfCurve(curve, idx_band, relative) ==
    IF Len(curve.freqs) < 2 \/ SimpsonRaises(BoolIndex(curve.psd, idx_band))
    THEN Raised("IndexError")
    ELSE [error |-> NoError,
          bp |-> IF relative
                 THEN Float(MaskedPower(curve, idx_band), TotalPower(curve))
                 ELSE Float(MaskedPower(curve, idx_band), 1),
          freqs |-> curve.freqs, psd |-> curve.psd, idx_band |-> idx_band]

MultitaperBandPower(curve, band, relative) ==
    BandPowerOfCurve(curve, MultitaperBandMask(curve.freqs, band), relative)

\* computing_multitaper_bandpower(signal, band, channel, relative).
computing_multitaper_bandpower(chunk, band, channel, relative) ==
    IF channel >= chunk.shape[2]
    THEN Raised("IndexError")
    ELSE MultitaperBandPower(
             multitaper_psd(chunk.data[channel], chunk.shape[1], chunk.rate), band, relative)

WelchBandPower(curve, band, relative) ==
    IF curve.error # NoError
    THEN Raised(curve.error)
    ELSE BandPowerOfCurve(curve, WelchBandMask(curve.freqs, band), relative)

\* computing_welch_bandpower(signal, band, channel, relative): welch on the
\* channel as it is, nperseg = window_length_for_welch * rate, nfft left out.
computing_welch_bandpower(chunk, band, channel, relative) ==
    IF channel >= chunk.shape[2]
    THEN Raised("IndexError")
    ELSE WelchBandPower(
             SigWelch(chunk.data[channel], chunk.shape[1], chunk.rate,
                      window_length_for_welch * chunk.rate, 0),
             band, relative)

Line(kind, chunk_index, channel, band, method, relative, value) ==
    [kind |-> kind, chunk |-> chunk_index, channel |-> channel, band |-> band,
     method |-> method, relative |-> relative, value |-> value]

Call(chunk_index, channel, band, method, relative, r) ==
    [chunk |-> chunk_index, channel |-> channel, band |-> band, method |-> method,
     relative |-> relative, freqs |-> r.freqs, psd |-> r.psd, idx_band |-> r.idx_band,
     bp |-> r.bp]

\* The two lines of a method for a band, absolute then relative, and the two
\* calls behind them.
MethodLines(chunk_index, channel, b, method, abs, rel) ==
    << Line("band", chunk_index, channel, b, method, FALSE, abs.bp),
       Line("band", chunk_index, channel, b, method, TRUE, rel.bp) >>

MethodCalls(chunk_index, channel, b, method, abs, rel) ==
    { Call(chunk_index, channel, b, method, FALSE, abs),
      Call(chunk_index, channel, b, method, TRUE, rel) }

\* Lines 250-259 for the b-th band given the four helper results: both
\* multitaper values, their two lines, both Welch values, their two lines.
BandOutcomeWelchFirst(chunk_index, channel, b, mt, mt_rel, w, w_rel) ==
    IF w.error # NoError
    THEN [error |-> w.error, lines |-> <<>>, calls |-> {}]
    ELSE IF w_rel.error # NoError
    THEN [error |-> w_rel.error, lines |-> <<>>,
          calls |-> {Call(chunk_index, channel, b, "welch", FALSE, w)}]
    ELSE IF mt.error # NoError
    THEN [error |-> mt.error,
          lines |-> MethodLines(chunk_index, channel, b, "welch", w, w_rel),
          calls |-> MethodCalls(chunk_index, channel, b, "welch", w, w_rel)]
    ELSE IF mt_rel.error # NoError
    THEN [error |-> mt_rel.error,
          lines |-> MethodLines(chunk_index, channel, b, "welch", w, w_rel),
          calls |-> MethodCalls(chunk_index, channel, b, "welch", w, w_rel)
                    \cup {Call(chunk_index, channel, b, "multitaper", FALSE, mt)}]
    ELSE [error |-> NoError,
          lines |-> MethodLines(chunk_index, channel, b, "welch", w, w_rel)
                    \o MethodLines(chunk_index, channel, b, "multitaper", mt, mt_rel),
          calls |-> MethodCalls(chunk_index, channel, b, "multitaper", mt, mt_rel)
                    \cup MethodCalls(chunk_index, channel, b, "welch", w, w_rel)]

BandOutcome(chunk_index, channel, b, mt, mt_rel, w, w_rel) ==
    IF mt.error # NoError
    THEN [error |-> mt.error, lines |-> <<>>, calls |-> {}]
    ELSE IF mt_rel.error # NoError
    THEN [error |-> mt_rel.error, lines |-> <<>>,
          calls |-> {Call(chunk_index, channel, b, "multitaper", FALSE, mt)}]
    ELSE IF w.error # NoError
    THEN [error |-> w.error,
          lines |-> MethodLines(chunk_index, channel, b, "multitaper", mt, mt_rel),
          calls |-> MethodCalls(chunk_index, channel, b, "multitaper", mt, mt_rel)]
    ELSE IF w_rel.error # NoError
    THEN [error |-> w_rel.error,
          lines |-> MethodLines(chunk_index, channel, b, "multitaper", mt, mt_rel),
          calls |-> MethodCalls(chunk_index, channel, b, "multitaper", mt, mt_rel)
                    \cup {Call(chunk_index, channel, b, "welch", FALSE, w)}]
    ELSE [error |-> NoError,
          lines |-> MethodLines(chunk_index, channel, b, "multitaper", mt, mt_rel)
                    \o MethodLines(chunk_index, channel, b, "welch", w, w_rel),
          calls |-> MethodCalls(chunk_index, channel, b, "multitaper", mt, mt_rel)
                    \cup MethodCalls(chunk_index, channel, b, "welch", w, w_rel)]

BandLines(chunk, chunk_index, channel, b) ==
    BandOutcome(chunk_index, channel, b,
                computing_multitaper_bandpower(chunk, band_list[b], channel, FALSE),
                computing_multitaper_bandpower(chunk, band_list[b], channel, TRUE),
                computing_welch_bandpower(chunk, band_list[b], channel, FALSE),
                computing_welch_bandpower(chunk, band_list[b], channel, TRUE))

\* A step of a loop followed by the rest of the loop: an exception in the
\* step ends the loop.
Then(first, rest) ==
    IF first.error # NoError
    THEN first
    ELSE [error |-> rest.error,
          lines |-> first.lines \o rest.lines,
          calls |-> first.calls \cup rest.calls]

Nothing == [error |-> NoError, lines |-> <<>>, calls |-> {}]

\* The loop over band_list, line 249, from its b-th entry on.
RECURSIVE BandLoop(_, _, _, _)
BandLoop(chunk, chunk_index, channel, b) ==
    IF b > Len(band_list)
    THEN Nothing
    ELSE Then(BandLines(chunk, chunk_index, channel, b),
              BandLoop(chunk, chunk_index, channel, b + 1))

\* The five bands' lines, lines 261-263, from the j-th name on; rec is
\* power_dict[chunk_index][channel].
RECURSIVE CanonicalLines(_, _, _, _)
CanonicalLines(rec, chunk_index, channel, j) ==
    IF j > Len(band_names)
    THEN <<>>
    ELSE << Line("canonical", chunk_index, channel, j, "welch", FALSE,
                 AbsPowerOf(rec, band_names[j])),
            Line("canonical", chunk_index, channel, j, "welch", TRUE,
                 RelPowerOf(rec, band_names[j])) >>
         \o CanonicalLines(rec, chunk_index, channel, j + 1)

\* Line 234: the heading of a channel.
Heading(chunk_index, channel) ==
    [error |-> NoError,
     lines |-> << Line("channel", chunk_index, channel, 0, "none", FALSE, Zero) >>,
     calls |-> {}]

\* Lines 237-247 and 261-263: the record of the channel is read (a missing
\* record raises KeyError) and its five bands are logged after band_list.
Canonical(powers, chunk_index, channel) ==
    [error |-> NoError,
     lines |-> CanonicalLines(powers[channel], chunk_index, channel, 1),
     calls |-> {}]

\* One turn of the channel loop of computing_ratio_and_bandpower for a channel
\* that is not excluded: the heading, the lines of band_list, the five bands.
ChannelReport(chunk, powers, chunk_index, channel) ==
    IF channel \notin DOMAIN powers
    THEN [error |-> "KeyError", lines |-> Heading(chunk_index, channel).lines, calls |-> {}]
    ELSE Then(Heading(chunk_index, channel),
              Then(BandLoop(chunk, chunk_index, channel, 1),
                   Canonical(powers, chunk_index, channel)))

\* The channel loop of computing_ratio_and_bandpower, line 230, from channel on.
RECURSIVE ChannelLoop(_, _, _, _)
ChannelLoop(chunk, powers, chunk_index, channel) ==
    IF channel >= chunk.number_of_channels
    THEN Nothing
    ELSE IF ExcludedFromReport(channel)
    THEN ChannelLoop(chunk, powers, chunk_index, channel + 1)
    ELSE Then(ChannelReport(chunk, powers, chunk_index, channel),
              ChannelLoop(chunk, powers, chunk_index, channel + 1))

\* computing_ratio_and_bandpower(signal, power_dict, chunk_index).
computing_ratio_and_bandpower(chunk, powers, chunk_index) ==
    ChannelLoop(chunk, powers, chunk_index, 0)

\* What computing_ratio_and_bandpower leaves in power_dict[chunk_index]: it
\* reads the records and assigns none.
PowersMergingWelch(powers, report) ==
    [c \in DOMAIN powers |->
        IF \E x \in report.calls : x.channel = c /\ x.method = "welch" /\ ~x.relative
        THEN [powers[c] EXCEPT !.delta_power =
                 (CHOOSE x \in report.calls :
                     x.channel = c /\ x.method = "welch" /\ ~x.relative).bp]
        ELSE powers[c]]

PowersAfterReport(powers, report) == powers

----------------------------------------------------------------------------
\* __call__.

Put(dict, key, value) ==
    [k \in DOMAIN dict \cup {key} |-> IF k = key THEN value ELSE dict[k]]

Init ==
    /\ signal \in Signals
    /\ exclude_channel_list \in ExcludeLists
    /\ band_list \in BandLists
    /\ window_length_for_welch \in WindowLengths
    /\ chunk_idx = 0
    /\ pc = "welch"
    /\ psd_dict = <<>>
    /\ power_dict = <<>>
    /\ log = <<>>
    /\ band_calls = {}
    /\ error = [kind |-> NoError, at |-> "none"]

Config == <<signal, exclude_channel_list, band_list, window_length_for_welch>>

\* Line 61: psd_dict[chunk_idx] = self.computing_welch_periodogram(signal_piece).
ComputingWelchPeriodogram ==
    /\ pc = "welch"
    /\ LET r == computing_welch_periodogram(signal[chunk_idx + 1])
       IN IF r.error # NoError
          THEN /\ pc' = "raised"
               /\ error' = [kind |-> r.error, at |-> "welch"]
               /\ psd_dict' = psd_dict
          ELSE /\ pc' = "power"
               /\ error' = error
               /\ psd_dict' = Put(psd_dict, chunk_idx, r.value)
    /\ UNCHANGED <<Config, chunk_idx, power_dict, log, band_calls>>

\* Line 62: power_dict[chunk_idx] =
\* self.computing_absolute_and_relative_power(psd_dict[chunk_idx]).
ComputingAbsoluteAndRelativePower ==
    /\ pc = "power"
    /\ LET r == computing_absolute_and_relative_power(psd_dict[chunk_idx])
       IN IF r.error # NoError
          THEN /\ pc' = "raised"
               /\ error' = [kind |-> r.error, at |-> "power"]
               /\ power_dict' = power_dict
          ELSE /\ pc' = "report"
               /\ error' = error
               /\ power_dict' = Put(power_dict, chunk_idx, r.value)
    /\ UNCHANGED <<Config, chunk_idx, psd_dict, log, band_calls>>

\* Line 65: self.computing_ratio_and_bandpower(signal_piece, power_dict,
\* chunk_idx), then the next chunk, or line 67: return psd_dict, power_dict.
ComputingRatioAndBandpower ==
    /\ pc = "report"
    /\ LET r == computing_ratio_and_bandpower(signal[chunk_idx + 1], power_dict[chunk_idx],
                                              chunk_idx)
       IN /\ log' = log \o r.lines
          /\ band_calls' = band_calls \cup r.calls
          /\ power_dict' = Put(power_dict, chunk_idx,
                               PowersAfterReport(power_dict[chunk_idx], r))
          /\ IF r.error # NoError
             THEN /\ pc' = "raised"
                  /\ error' = [kind |-> r.error, at |-> "report"]
                  /\ chunk_idx' = chunk_idx
             ELSE /\ error' = error
                  /\ IF chunk_idx + 1 < Len(signal)
                     THEN pc' = "welch" /\ chunk_idx' = chunk_idx + 1
                     ELSE pc' = "done" /\ chunk_idx' = chunk_idx
    /\ UNCHANGED <<Config, psd_dict>>

Next ==
    \/ ComputingWelchPeriodogram
    \/ ComputingAbsoluteAndRelativePower
    \/ ComputingRatioAndBandpower

Spec == Init /\ [][Next]_vars


----------------------------------------------------------------------------
\* The properties.

Chunk(k) == signal[k + 1]

\* {c in 0..number_of_channels-1 : c not in exclude_channel_list}.
KeptChannels(chunk) ==
    {c \in 0..(chunk.number_of_channels - 1) : c \notin exclude_channel_list}

\* C1: after __call__ returns, for every chunk index k the key sets of
\* psd_dict[k] and of power_dict[k] are exactly the channels of the chunk that
\* are not in exclude_channel_list; no excluded channel is ever a key of
\* either mapping.
C1_KeysAreTheNonExcludedChannels ==
    /\ \A k \in DOMAIN psd_dict : DOMAIN psd_dict[k] = KeptChannels(Chunk(k))
    /\ \A k \in DOMAIN power_dict : DOMAIN power_dict[k] = KeptChannels(Chunk(k))
    /\ pc = "done" =>
          /\ DOMAIN psd_dict = 0..(Len(signal) - 1)
          /\ DOMAIN power_dict = 0..(Len(signal) - 1)

\* Returned with a chunk that lost some of its channels to the exclusion and
\* kept others.
C1_Witness ==
    /\ pc = "done"
    /\ \E k \in DOMAIN power_dict :
          /\ DOMAIN power_dict[k] # {}
          /\ DOMAIN power_dict[k] # 0..(Chunk(k).number_of_channels - 1)
          /\ DOMAIN psd_dict[k] = DOMAIN power_dict[k]

MaskIsClosedInterval(idx, freqs, band) ==
    /\ Len(idx) = Len(freqs)
    /\ \A i \in 1..Len(freqs) : idx[i] <=> (band[1] <= freqs[i] /\ freqs[i] <= band[2])

\* C2: every band mask is true at bin i if and only if low <= freqs[i] <= high:
\* the five masks stored in each power record, against the stored curve, and
\* the masks the multitaper and Welch band-power helpers integrated over.
C2_MaskSelectsTheClosedInterval ==
    /\ \A k \in DOMAIN power_dict : \A c \in DOMAIN power_dict[k] : \A b \in DOMAIN bands :
          MaskIsClosedInterval(IdxOf(power_dict[k][c], b), psd_dict[k][c].freqs, bands[b])
    /\ \A x \in band_calls : MaskIsClosedInterval(x.idx_band, x.freqs, band_list[x.band])

SelectsBothEnds(idx, freqs, band) ==
    /\ \E i \in 1..Len(freqs) : freqs[i] = band[1] /\ idx[i]
    /\ \E i \in 1..Len(freqs) : freqs[i] = band[2] /\ idx[i]

\* A stored mask and a mask of each helper with a bin exactly at low and a bin
\* exactly at high, both selected.
C2_Witness ==
    /\ \E k \in DOMAIN power_dict : \E c \in DOMAIN power_dict[k] :
          SelectsBothEnds(power_dict[k][c].idx_theta, psd_dict[k][c].freqs, bands.theta)
    /\ \E x \in band_calls :
          x.method = "multitaper" /\ SelectsBothEnds(x.idx_band, x.freqs, band_list[x.band])
    /\ \E x \in band_calls :
          x.method = "welch" /\ SelectsBothEnds(x.idx_band, x.freqs, band_list[x.band])

\* C3: a signal with a malformed chunk (channel count declared differing from
\* the buffer's, or rate <= 0) at any position does not return a Result; said
\* here of the chunks that have a channel to estimate.
C3_MalformedChunkFailsTheInvocation ==
    pc = "done" =>
        \A k \in 0..(Len(signal) - 1) : KeptChannels(Chunk(k)) # {} => ~Malformed(Chunk(k))

\* The window length in samples, window_length_for_welch * rate, is > 0 and at
\* most the number of samples of the chunk.
WindowFits(chunk) ==
    /\ window_length_for_welch * chunk.rate > 0
    /\ window_length_for_welch * chunk.rate <= 16 * chunk.shape[1]

\* C4: the invocation fails whenever the estimator is run on a chunk whose
\* window length is not > 0 or exceeds the chunk's number of samples.
C4_WindowThatDoesNotFitFailsTheInvocation ==
    pc = "done" =>
        \A k \in 0..(Len(signal) - 1) : KeptChannels(Chunk(k)) # {} => WindowFits(Chunk(k))

EmptyMask(freqs, band) ==
    \A i \in 1..Len(freqs) : ~(band[1] <= freqs[i] /\ freqs[i] <= band[2])

\* C5: band-power integration over a mask that selects no bin never raises:
\* the invocation is not ended by the five bands' integration of a chunk one
\* of whose curves has no bin in one of the bands.
C5_EmptyMaskDoesNotRaise ==
    ~(/\ pc = "raised"
      /\ error.at = "power"
      /\ \E c \in DOMAIN psd_dict[chunk_idx] : \E b \in DOMAIN bands :
            /\ Len(psd_dict[chunk_idx][c].freqs) >= 2
            /\ EmptyMask(psd_dict[chunk_idx][c].freqs, bands[b]))

\* The five bands' integration of chunk k has been run.
PowerStepTaken(k) ==
    /\ k \in DOMAIN psd_dict
    /\ k < chunk_idx \/ pc # "power"

\* C6: when the total power of a stored curve is exactly zero, computing the
\* relative powers does not raise: the record of that (chunk, channel) is
\* stored with the five absolute powers 0 and the five relative powers nan.
C6_ZeroTotalPowerGivesTheSentinel ==
    \A k \in DOMAIN psd_dict : \A c \in DOMAIN psd_dict[k] :
        (PowerStepTaken(k) /\ TotalPower(psd_dict[k][c]) = 0) =>
            /\ ~(pc = "raised" /\ error.at = "power" /\ chunk_idx = k)
            /\ k \in DOMAIN power_dict
            /\ c \in DOMAIN power_dict[k]
            /\ \A b \in DOMAIN bands :
                  /\ AbsPowerOf(power_dict[k][c], b) = Zero
                  /\ RelPowerOf(power_dict[k][c], b) = NaN

\* The Result of the chunks 0..n-1 as the two estimation steps alone make it.
EstimatedPsd(n) == [k \in 0..(n - 1) |-> computing_welch_periodogram(Chunk(k)).value]

EstimatedPower(n) ==
    [k \in 0..(n - 1) |-> computing_absolute_and_relative_power(EstimatedPsd(n)[k]).value]

\* C7: computing_ratio_and_bandpower leaves the Result unchanged: the psd and
\* the power mappings are the same before and after the step, for every chunk,
\* and what is returned is what the two estimation steps stored, whatever
\* band_list is; the step's values go to the logger.
C7_ReportLeavesTheResultUnchanged ==
    /\ [][pc = "report" => (psd_dict' = psd_dict /\ power_dict' = power_dict)]_vars
    /\ [](pc = "done" =>
            /\ psd_dict = EstimatedPsd(Len(signal))
            /\ power_dict = EstimatedPower(Len(signal)))

\* Returned after the step logged Welch and multitaper values of a band for a
\* channel with a power record.
C7_Witness ==
    /\ pc = "done"
    /\ \E i \in 1..Len(log) :
          /\ log[i].kind = "band"
          /\ log[i].method = "welch"
          /\ log[i].value.num > 0
          /\ log[i].channel \in DOMAIN power_dict[log[i].chunk]

\* C8: the Welch band power the per-band step reports is the band-power
\* integral of the curve stored in the Result for that (chunk, channel); said
\* here of the well-formed chunks the window fits.
C8_WelchBandPowerIsOfTheStoredCurve ==
    \A x \in band_calls :
        (x.method = "welch" /\ ~Malformed(Chunk(x.chunk)) /\ WindowFits(Chunk(x.chunk))) =>
            x.bp = BandPowerOfCurve(psd_dict[x.chunk][x.channel],
                                    WelchBandMask(psd_dict[x.chunk][x.channel].freqs,
                                                  band_list[x.band]),
                                    x.relative).bp

\* The place of a line among the lines of its (chunk, channel): the heading,
\* then per band of band_list multitaper absolute, multitaper relative, Welch
\* absolute, Welch relative, then per band of delta .. gamma absolute, relative.
PlaceOf(e) ==
    CASE e.kind = "channel" -> 0
      [] e.kind = "band" ->
            1 + 4 * (e.band - 1) + (IF e.method = "multitaper" THEN 0 ELSE 2)
              + (IF e.relative THEN 1 ELSE 0)
      [] OTHER ->
            1 + 4 * Len(band_list) + 2 * (e.band - 1) + (IF e.relative THEN 1 ELSE 0)

InInputOrder(i) ==
    /\ log[i].channel \notin exclude_channel_list
    /\ log[i].kind = "band" => log[i].band \in 1..Len(band_list)
    /\ log[i].kind = "canonical" => log[i].band \in 1..Len(band_names)
    /\ IF i > 1 /\ log[i - 1].chunk = log[i].chunk /\ log[i - 1].channel = log[i].channel
       THEN PlaceOf(log[i]) = PlaceOf(log[i - 1]) + 1
       ELSE /\ PlaceOf(log[i]) = 0
            /\ i > 1 => \/ log[i - 1].chunk < log[i].chunk
                        \/ /\ log[i - 1].chunk = log[i].chunk
                           /\ log[i - 1].channel < log[i].channel

\* C9: the logger's lines follow input order: chunk by chunk, within a chunk
\* channel by channel with none for an excluded channel, within a channel the
\* bands of band_list in order, each as multitaper absolute, multitaper
\* relative, Welch absolute, Welch relative, then delta, theta, alpha, beta,
\* gamma; and when a step emits lines for chunk k, the psd and power entries of
\* every channel of chunk k are already stored.
C9_LogFollowsInputOrder ==
    /\ [](\A i \in 1..Len(log) : InInputOrder(i))
    /\ [][log' # log =>
            /\ chunk_idx \in DOMAIN psd_dict
            /\ chunk_idx \in DOMAIN power_dict
            /\ DOMAIN psd_dict[chunk_idx] = KeptChannels(Chunk(chunk_idx))
            /\ DOMAIN power_dict[chunk_idx] = KeptChannels(Chunk(chunk_idx))
            /\ \A i \in (Len(log) + 1)..Len(log') : log'[i].chunk = chunk_idx]_vars

\* Returned with lines of two chunks, of two channels of a chunk and of two
\* bands of band_list.
C9_Witness ==
    /\ pc = "done"
    /\ \E i, j \in 1..Len(log) : log[i].chunk < log[j].chunk
    /\ \E i, j \in 1..Len(log) : log[i].chunk = log[j].chunk /\ log[i].channel < log[j].channel
    /\ \E i, j \in 1..Len(log) :
          /\ log[i].kind = "band" /\ log[j].kind = "band"
          /\ log[i].chunk = log[j].chunk /\ log[i].channel = log[j].channel
          /\ log[i].band < log[j].band

\* The frequencies two adjacent bands of delta .. gamma share: 4, 8, 12, 30 Hz.
SharedEndpoints == {bands[b][2] : b \in DOMAIN bands} \cap {bands[b][1] : b \in DOMAIN bands}

SelectedBy(rec, i) == {b \in DOMAIN bands : IdxOf(rec, b)[i]}

\* The masks of a record against its curve: a bin at a shared endpoint is
\* selected by the two bands that end and begin there, any other bin from
\* 0.5 Hz to 100 Hz by one band, a bin outside by none.
MasksOverlapAtEndpoints(rec, freqs) ==
    \A i \in 1..Len(freqs) :
        IF freqs[i] \in SharedEndpoints
        THEN SelectedBy(rec, i) =
                 {b \in DOMAIN bands : bands[b][1] = freqs[i] \/ bands[b][2] = freqs[i]}
             /\ Cardinality(SelectedBy(rec, i)) = 2
        ELSE IF freqs[i] >= bands.delta[1] /\ freqs[i] <= bands.gamma[2]
        THEN Cardinality(SelectedBy(rec, i)) = 1
        ELSE SelectedBy(rec, i) = {}

\* Bin i is counted in the power over idx: the power moves with psd[i].
Counted(curve, idx, i) ==
    MaskedPower([curve EXCEPT !.psd[i] = @ + 1], idx) # MaskedPower(curve, idx)

BinsSelected(idx) == Cardinality({i \in 1..Len(idx) : idx[i]})

\* C10 as stated: a bin at a shared endpoint is selected by both adjacent masks
\* and counted in both bands' absolute power; every other bin is selected by at
\* most one mask, and bins below 0.5 Hz or above 100 Hz by none.
C10_SharedBinCountedInBothBands ==
    \A k \in DOMAIN power_dict : \A c \in DOMAIN power_dict[k] :
        /\ MasksOverlapAtEndpoints(power_dict[k][c], psd_dict[k][c].freqs)
        /\ \A i \in 1..Len(psd_dict[k][c].freqs) :
              psd_dict[k][c].freqs[i] \in SharedEndpoints =>
                  \A b \in SelectedBy(power_dict[k][c], i) :
                      Counted(psd_dict[k][c], IdxOf(power_dict[k][c], b), i)

\* C10 amended: a bin at a shared endpoint is selected by both adjacent masks,
\* and is counted in the absolute power of each of the two bands whose mask
\* selects at least two bins (the integral over a single bin is 0); every
\* other bin is selected by at most one mask, and bins below 0.5 Hz or above
\* 100 Hz by none.
C10_SharedBinSelectedByBothBands ==
    \A k \in DOMAIN power_dict : \A c \in DOMAIN power_dict[k] :
        /\ MasksOverlapAtEndpoints(power_dict[k][c], psd_dict[k][c].freqs)
        /\ \A i \in 1..Len(psd_dict[k][c].freqs) :
              psd_dict[k][c].freqs[i] \in SharedEndpoints =>
                  \A b \in SelectedBy(power_dict[k][c], i) :
                      Counted(psd_dict[k][c], IdxOf(power_dict[k][c], b), i)
                          <=> BinsSelected(IdxOf(power_dict[k][c], b)) >= 2

\* A stored record whose curve has a bin at 4 Hz that delta and theta both
\* select and both count, a bin above 100 Hz, and a band of a single bin.
C10_Witness ==
    \E k \in DOMAIN power_dict : \E c \in DOMAIN power_dict[k] :
        /\ \E i \in 1..Len(psd_dict[k][c].freqs) :
              /\ psd_dict[k][c].freqs[i] = bands.delta[2]
              /\ power_dict[k][c].idx_delta[i] /\ power_dict[k][c].idx_theta[i]
              /\ Counted(psd_dict[k][c], power_dict[k][c].idx_delta, i)
              /\ Counted(psd_dict[k][c], power_dict[k][c].idx_theta, i)
        /\ \E i \in 1..Len(psd_dict[k][c].freqs) : psd_dict[k][c].freqs[i] > bands.gamma[2]

====
